---------------------------- MODULE Spec2Model ----------------------------
(***************************************************************************)
(* A model of object_pool.py: the singleton registry                       *)
(* (SingletonMetaPoolRegistry), the pool engine (ObjectPool) and the       *)
(* scoped borrow (ObjectPool.Executor).                                    *)
(*                                                                         *)
(* Objects are modelled by identity.  A pool is an index into `pools', the *)
(* sequence of every ObjectPool instance ever constructed; a member is an  *)
(* index into `stats', the heap of stats dicts.  The code creates a stats  *)
(* dict in the same breath as the member it belongs to                     *)
(* (lines 144-145, 253-254, 294-295) and from then on only mutates it in   *)
(* place (lines 317-320), so one index names both the member and its dict, *)
(* and every holder of the pair sees the same dict, as in Python.          *)
(***************************************************************************)
EXTENDS Integers, Sequences, FiniteSets, TLC

VARIABLES
    registry,   \* SingletonMetaPoolRegistry.__pool_registry: class name -> pool
    pools,      \* every ObjectPool instance constructed so far (fields + queue)
    stats,      \* the stats dict of every member created so far
    cleanups,   \* the members the cleanup hook was called on, in call order
    now,        \* datetime.datetime.now()
    held,       \* the (pool, member) pairs the sequential client has checked out
    ret,        \* the client's last ObjectPool(...) call, its arguments and its result, or its last destroy() that raised
    borrows,    \* test driver: number of `with pool.get()' blocks entered
    first,      \* test driver: the item of the first block
    cur,        \* test driver: the item of the latest block
    curExpired, \* test driver: had the test slept past that item's expiry before the block
    fabricated, \* SpecPool's client: number of get_member calls that found the queue empty
    pc,         \* threads: position of each thread in the method it is running
    loc         \* threads: the locals of each thread

vars == <<registry, pools, stats, cleanups, now, held, ret,
          borrows, first, cur, curExpired, fabricated, pc, loc>>

-----------------------------------------------------------------------------
(* Bounds of the model *)

\* Members (class instances) created in one behaviour.
MaxObjects == 2
\* ObjectPool instances constructed in one behaviour.
MaxPools == 2
\* Threads using the pool, or the registry, at the same time.
NumThreads == 2
\* Members created in one behaviour of the threads.
MaxConcObjects == 2
\* The clock runs from 0 to MaxTime.
MaxTime == 2
\* The largest max_members a pool is created with in SpecPool.
MaxFill == 2
\* get_member calls in one behaviour of SpecPool.
MaxBorrows == 3
\* Members created in one behaviour of SpecScope.
MaxScopeObjects == 4
\* The largest count of a stats dict handed to the validity policy.
MaxInputCount == 2
\* The test driver runs max_reusable + CycleSlack `with pool.get()' blocks.
CycleSlack == 3
\* Members created in one behaviour of the test driver.
MaxCycleObjects == 4

(* Program constants *)

\* Default of max_reusable in SingletonMetaPoolRegistry.__call__.
DefaultMaxReusable == 20

-----------------------------------------------------------------------------
(* Values *)

\* None, as a registry lookup result, a pool reference or a member reference.
NoPool == 0
NoMember == 0
\* A stats dict without 'created_at' (member_stats.get('created_at', None)).
NoTime == -1
\* What `ret' holds after ObjectPool(...) raised.
Raised == -1
\* What `ret' holds after destroy() raised the exception of the cleanup hook.
HookRaised == -2

\* The classes pools are created for.  A class is an object of its own; the
\* tests define a class named Browser in each setUp and classes named Browser1
\* inside two test methods, so different classes bear the same name.
Classes ==
    { [module |-> "test_pool_creation", name |-> "Browser"],
      [module |-> "test_pool_validation_behaviour", name |-> "Browser"],
      [module |-> "test_pool_validation_behaviour", name |-> "Browser1"] }

\* klass.__name__, the key of the registry.
ClassName(klass) == klass.name

\* The keyword arguments of ObjectPool(...).  The hooks are modelled by
\* whether one is given (by argument or found on the class); a check hook's
\* answer is an input of each call of it.
Cfg(mm, mr, ex, pre, post, lazy, chk, cln) ==
    [max_members |-> mm, max_reusable |-> mr, expires |-> ex,
     pre_check |-> pre, post_check |-> post, lazy |-> lazy,
     check_func |-> chk, cleanup_func |-> cln]

-----------------------------------------------------------------------------
(* SingletonMetaPoolRegistry *)

\* A remove that pops nothing.
RemovePool_Keeps(reg, klass) == reg

RemovePool(reg, klass) == [reg EXCEPT ![ClassName(klass)] = NoPool]

PoolExists(reg, klass) == reg[ClassName(klass)] # NoPool

-----------------------------------------------------------------------------
(* ObjectPool: the validity policy *)

GetDefaultStats(new, t) ==
    [count |-> 0, new |-> new, created_at |-> t, last_used |-> t]

GetExpiryTime(P, created_at, t) ==
    IF created_at # NoTime THEN created_at + P.expire_in_secs ELSE t

\* A check that expires a member when its count reaches the limit.
InternalInvalidCheck_AtLimit(P, st, lag, t) ==
    LET expires_at == GetExpiryTime(P, st.created_at, t - lag)
    IN  IF P.max_reusable_count # 0 /\ P.max_reusable_count <= st.count THEN TRUE
        ELSE IF P.expire_in_secs # 0 /\ expires_at < t THEN TRUE
        ELSE FALSE

\* A check that takes expires = 0 for an expiry time like any other.
InternalInvalidCheck_ZeroExpires(P, st, lag, t) ==
    LET expires_at == GetExpiryTime(P, st.created_at, t - lag)
    IN  IF P.max_reusable_count # 0 /\ P.max_reusable_count < st.count THEN TRUE
        ELSE IF expires_at < t THEN TRUE
        ELSE FALSE

\* A check that expires a member at its expiry time, not after it.
InternalInvalidCheck_AtExpiry(P, st, lag, t) ==
    LET expires_at == GetExpiryTime(P, st.created_at, t - lag)
    IN  IF P.max_reusable_count # 0 /\ P.max_reusable_count < st.count THEN TRUE
        ELSE IF P.expire_in_secs # 0 /\ expires_at <= t THEN TRUE
        ELSE FALSE

\* A check that never expires a member by its count.
InternalInvalidCheck_NoCount(P, st, lag, t) ==
    LET expires_at == GetExpiryTime(P, st.created_at, t - lag)
    IN  IF P.expire_in_secs # 0 /\ expires_at < t THEN TRUE
        ELSE FALSE

\* t is the clock at line 210.  Line 227 reads the clock before that, and
\* only for a stats dict without 'created_at': `lag' is how far the clock
\* moved between the two reads.
InternalInvalidCheck(P, st, lag, t) ==
    LET created_at == st.created_at
        count      == st.count
        expires_at == GetExpiryTime(P, created_at, t - lag)
    IN  IF P.max_reusable_count # 0 /\ P.max_reusable_count < count THEN TRUE
        ELSE IF P.expire_in_secs # 0 /\ expires_at < t THEN TRUE
        ELSE FALSE

\* An update that leaves the count alone.
UpdateMemberStats_NoCount(st, t) ==
    [st EXCEPT !.new = FALSE, !.last_used = t]

UpdateMemberStats(st, t) ==
    [st EXCEPT !.count = @ + 1, !.new = FALSE, !.last_used = t]

\* queue.Queue: put at the tail, get from the head.
QueuePut(q, m) == Append(q, m)

\* A get that returns the head and leaves it in the queue.
QueueGet_Peek(q) == q

QueueGet(q) == Tail(q)

\* __create_new_instance: a new object, whatever builds it.
CreateNewInstance(S) == Len(S) + 1

MemberCleanup(P, cl, m) == IF P.cleanup_func THEN Append(cl, m) ELSE cl

\* The three results of the methods below: the member returned, the heap of
\* stats dicts and the cleanup hook's calls after the method ran.
CleanupAndGetMember(P, m, S, cl, t) ==
    [member   |-> CreateNewInstance(S),
     stats    |-> Append(S, GetDefaultStats(FALSE, t)),
     cleanups |-> MemberCleanup(P, cl, m)]

\* `answer' is what check_func returns when there is one.
CheckAndGetMember(P, m, answer, lag, S, cl, t) ==
    LET invalid_member          == IF P.check_func THEN answer ELSE FALSE
        invalid_member_internal == InternalInvalidCheck(P, S[m], lag, t)
    IN  IF invalid_member \/ invalid_member_internal
        THEN CleanupAndGetMember(P, m, S, cl, t)
        ELSE [member   |-> m,
              stats    |-> [S EXCEPT ![m] = UpdateMemberStats(S[m], t)],
              cleanups |-> cl]

-----------------------------------------------------------------------------
(* ObjectPool: construction, borrow, release, destroy, run to completion   *)
(* by one caller                                                           *)

\* __create_pool: the members of the initial fill, after the n = Len(S)
\* members that exist already.
CreatePoolMembers(S, n) == [i \in 1..n |-> Len(S) + i]

CreatePoolStats(S, n, t) ==
    S \o [i \in 1..n |-> GetDefaultStats(TRUE, t)]

\* An __init__ that fills the queue whatever `lazy' says.
InitialFill_Eager(cfg) == cfg.max_members

\* The number of members __init__ creates.
InitialFill(cfg) == IF cfg.lazy THEN 0 ELSE cfg.max_members

\* __init__: the new instance's fields.
NewPool(klass, cfg, S) ==
    [klass              |-> klass,
     max_pool_object    |-> cfg.max_members,
     max_reusable_count |-> cfg.max_reusable,
     expire_in_secs     |-> cfg.expires,
     pre_check          |-> cfg.pre_check,
     post_check         |-> cfg.post_check,
     check_func         |-> cfg.check_func,
     cleanup_func       |-> cfg.cleanup_func,
     queue              |-> CreatePoolMembers(S, InitialFill(cfg))]

\* get_member, as one step: the member returned, the queue, the heap and the
\* cleanup calls after it.
GetMember(P, answer, lag, S, cl, t) ==
    LET pool_size == Len(P.queue)
    IN  IF pool_size = 0
        THEN [member   |-> CreateNewInstance(S),
              stats    |-> Append(S, GetDefaultStats(TRUE, t)),
              cleanups |-> cl,
              queue    |-> P.queue]
        ELSE LET obj == Head(P.queue)
                 q   == QueueGet(P.queue)
             IN  IF P.pre_check
                 THEN [queue |-> q] @@ CheckAndGetMember(P, obj, answer, lag, S, cl, t)
                 ELSE [member |-> obj, stats |-> S, cleanups |-> cl, queue |-> q]

\* A queue_member that never checks.
QueueMember_NoCheck(P, m, answer, lag, S, cl, t) ==
    [member |-> m, stats |-> S, cleanups |-> cl, queue |-> QueuePut(P.queue, m)]

\* A queue_member that drops the pair when the queue holds max_members.
QueueMember_Bounded(P, m, answer, lag, S, cl, t) ==
    LET r == IF P.post_check
             THEN CheckAndGetMember(P, m, answer, lag, S, cl, t)
             ELSE [member |-> m, stats |-> S, cleanups |-> cl]
    IN  [queue |-> IF Len(P.queue) >= P.max_pool_object
                   THEN P.queue ELSE QueuePut(P.queue, r.member)] @@ r

\* queue_member, as one step.
QueueMember(P, m, answer, lag, S, cl, t) ==
    LET r == IF P.post_check
             THEN CheckAndGetMember(P, m, answer, lag, S, cl, t)
             ELSE [member |-> m, stats |-> S, cleanups |-> cl]
    IN  [queue |-> QueuePut(P.queue, r.member)] @@ r

\* An __exit__ that releases the pair only when the block ended normally.
ExecutorExit_OnSuccess(P, member, exc, answer, lag, S, cl, t) ==
    IF exc
    THEN [member |-> member, stats |-> S, cleanups |-> cl, queue |-> P.queue,
          suppress |-> FALSE]
    ELSE [suppress |-> FALSE] @@ QueueMember(P, member, answer, lag, S, cl, t)

\* Executor.__exit__(exc_type, exc_val, exc_tb) on the retained member: `exc'
\* is whether the block raised.  The method returns None, so the with
\* statement does not suppress the exception.
ExecutorExit(P, member, exc, answer, lag, S, cl, t) ==
    [suppress |-> FALSE] @@ QueueMember(P, member, answer, lag, S, cl, t)

\* A drain that hands only the first queued member to the cleanup.
DrainCleanup_FirstOnly(P, q, cl) ==
    IF Len(q) = 0 THEN cl ELSE MemberCleanup(P, cl, Head(q))

RECURSIVE DrainCleanup(_, _, _)
\* destroy's loop: the cleanup calls after the queue q is drained.
DrainCleanup(P, q, cl) ==
    IF Len(q) = 0 THEN cl
    ELSE DrainCleanup(P, QueueGet(q), MemberCleanup(P, cl, Head(q)))

\* A drain that catches the exception of the hook and goes on.
DrainUntilRaise_Swallow(P, q, cl, n) ==
    [queue |-> <<>>, cleanups |-> DrainCleanup(P, q, cl), raised |-> TRUE]

RECURSIVE DrainUntilRaise(_, _, _, _)
\* destroy's loop when the cleanup hook raises on its n-th call from here
\* (on none if n < 1): the queue and the hook's calls when the loop ends, and
\* whether it ended by the exception, which nothing catches.
DrainUntilRaise(P, q, cl, n) ==
    IF Len(q) = 0 THEN [queue |-> q, cleanups |-> cl, raised |-> FALSE]
    ELSE LET member == Head(q)
             q1     == QueueGet(q)
         IN  IF P.cleanup_func /\ n = 1
             THEN [queue |-> q1, cleanups |-> Append(cl, member),
                   raised |-> TRUE]
             ELSE DrainUntilRaise(P, q1, MemberCleanup(P, cl, member),
                                  IF P.cleanup_func THEN n - 1 ELSE n)

\* The answers a check hook may give: any, when the pool has one.
Answers(P) == IF P.check_func THEN BOOLEAN ELSE {FALSE}

\* How far the clock may move between line 227 and line 210: not at all (the
\* two reads are a few instructions apart) or by its smallest step.
Lags(st) == IF st.created_at = NoTime THEN {0, 1} ELSE {0}

\* Every stats dict of the pool's own making has 'created_at'
\* (_get_default_stats): line 227 is not reached for it.
NoLag == 0

-----------------------------------------------------------------------------
(* SingletonMetaPoolRegistry.__call__ and ObjectPool.destroy, run to         *)
(* completion by one caller                                                *)

\* A __call__ that never looks the class up: every call constructs.
MetaCall_NoLookup(reg, PS, S, klass, cfg, force, t) ==
    IF ~(cfg.max_members >= 0)
    THEN [registry |-> reg, pools |-> PS, stats |-> S, ret |-> Raised]
    ELSE [registry |-> [reg EXCEPT ![ClassName(klass)] = Len(PS) + 1],
          pools    |-> Append(PS, NewPool(klass, cfg, S)),
          stats    |-> CreatePoolStats(S, InitialFill(cfg), t),
          ret      |-> Len(PS) + 1]

\* ObjectPool(klass, ..., force=force): the registry, the instances, the heap
\* and the value returned (Raised when __init__ raises).
MetaCall(reg, PS, S, klass, cfg, force, t) ==
    LET reg1 == IF force THEN RemovePool(reg, klass) ELSE reg
        pool_registered == PoolExists(reg1, klass)
    IN  IF pool_registered
        THEN [registry |-> reg1, pools |-> PS, stats |-> S,
              ret |-> reg1[ClassName(klass)]]
        ELSE IF ~(cfg.max_members >= 0)
        THEN [registry |-> reg1, pools |-> PS, stats |-> S, ret |-> Raised]
        ELSE [registry |-> [reg1 EXCEPT ![ClassName(klass)] = Len(PS) + 1],
              pools    |-> Append(PS, NewPool(klass, cfg, S)),
              stats    |-> CreatePoolStats(S, InitialFill(cfg), t),
              ret      |-> Len(PS) + 1]

\* destroy(): the registry after it.
DestroyRegistry(reg, P) == RemovePool(reg, P.klass)

-----------------------------------------------------------------------------
(* The state before any pool exists *)

\* Before the client's first ObjectPool(...) call.
NoCall == [pool |-> NoPool]

Threads == 1..NumThreads

\* A thread's locals: the member it holds (obj), the member destroy() took
\* from the queue (victim), and in __call__ the arguments (cfg),
\* pool_registered (seen), the instance constructed (made) and the value
\* returned (got).  The queue size a thread read is kept in its position:
\* the code only compares it with 0, at once.
Idle == [obj |-> NoMember, victim |-> NoMember,
         cfg |-> Cfg(1, 1, 0, FALSE, TRUE, FALSE, FALSE, TRUE),
         seen |-> FALSE, made |-> NoPool, got |-> NoPool]

InitEmpty ==
    /\ registry = [n \in {ClassName(k) : k \in Classes} |-> NoPool]
    /\ pools = <<>>
    /\ stats = <<>>
    /\ cleanups = <<>>
    /\ now = 0
    /\ held = {}
    /\ ret = NoCall
    /\ borrows = 0
    /\ first = NoMember
    /\ cur = NoMember
    /\ curExpired = FALSE
    /\ fabricated = 0
    /\ pc = [t \in Threads |-> "idle"]
    /\ loc = [t \in Threads |-> Idle]

driver == <<borrows, first, cur, curExpired, fabricated>>
threads == <<pc, loc>>

\* The clock advances between any two operations.
Tick ==
    /\ now < MaxTime
    /\ now' = now + 1
    /\ UNCHANGED <<registry, pools, stats, cleanups, held, ret, driver, threads>>

-----------------------------------------------------------------------------
(* Spec: one client calling the public operations one after another, each   *)
(* run to completion.  The clock stands still here: what the registry does *)
(* does not depend on it, and SpecCycle lets it run.                       *)

\* The class the client pools.
TheClass == [module |-> "test_pool_creation", name |-> "Browser"]

\* The configurations the client asks for.
Configs ==
    { Cfg(1, 1, 1, FALSE, TRUE, FALSE, FALSE, TRUE),
      Cfg(2, 1, 0, TRUE, FALSE, FALSE, FALSE, TRUE),
      Cfg(1, 1, 1, FALSE, TRUE, TRUE, FALSE, FALSE),
      Cfg(-1, 1, 1, FALSE, TRUE, FALSE, FALSE, TRUE) }

\* pool = ObjectPool(klass, **cfg, force=force)
Call(klass, cfg, force) ==
    LET r == MetaCall(registry, pools, stats, klass, cfg, force, now)
    IN  /\ Len(r.pools) <= MaxPools
        /\ Len(r.stats) <= MaxObjects
        /\ registry' = r.registry
        /\ pools' = r.pools
        /\ stats' = r.stats
        /\ ret' = [pool |-> r.ret, klass |-> klass, cfg |-> cfg, force |-> force]
        /\ UNCHANGED <<cleanups, now, held, driver, threads>>

\* pool.get().__enter__(): get_member on pool p.
Borrow(p, answer) ==
    LET r == GetMember(pools[p], answer, NoLag, stats, cleanups, now)
    IN  /\ Len(r.stats) <= MaxObjects
        /\ pools' = [pools EXCEPT ![p].queue = r.queue]
        /\ stats' = r.stats
        /\ cleanups' = r.cleanups
        /\ held' = held \cup {<<p, r.member>>}
        /\ UNCHANGED <<registry, now, ret, driver, threads>>

\* pool.get().__exit__(): queue_member on the pair the block was given.
Release(p, m, answer) ==
    LET r == QueueMember(pools[p], m, answer, NoLag, stats, cleanups, now)
    IN  /\ <<p, m>> \in held
        /\ Len(r.stats) <= MaxObjects
        /\ pools' = [pools EXCEPT ![p].queue = r.queue]
        /\ stats' = r.stats
        /\ cleanups' = r.cleanups
        /\ held' = held \ {<<p, m>>}
        /\ UNCHANGED <<registry, now, ret, driver, threads>>

\* pool.destroy()
Destroy(p) ==
    /\ cleanups' = DrainCleanup(pools[p], pools[p].queue, cleanups)
    /\ pools' = [pools EXCEPT ![p].queue = <<>>]
    /\ registry' = DestroyRegistry(registry, pools[p])
    /\ UNCHANGED <<stats, now, held, ret, driver, threads>>

Init == InitEmpty

Next ==
    \/ \E cfg \in Configs, force \in BOOLEAN : Call(TheClass, cfg, force)
    \/ \E p \in 1..Len(pools) : \E answer \in Answers(pools[p]) :
          Borrow(p, answer)
    \/ \E pm \in held : \E answer \in Answers(pools[pm[1]]) :
          Release(pm[1], pm[2], answer)
    \/ \E p \in 1..Len(pools) : Destroy(p)

Spec == Init /\ [][Next]_vars

-----------------------------------------------------------------------------
(* Claims about the registry, under Spec *)

Registered(klass) == registry[ClassName(klass)]

\* C4: when a pool is registered for a class, a later ObjectPool(klass, ...)
\* without force, whatever configuration it passes, returns that very
\* instance and changes neither the registry, nor any pool's fields or
\* queue, nor any member's stats, nor calls a hook.
C4_CachedCallIdempotent ==
    [][ \A cfg \in Configs :
          (PoolExists(registry, TheClass) /\ Call(TheClass, cfg, FALSE))
          => /\ ret'.pool = Registered(TheClass)
             /\ registry' = registry
             /\ pools' = pools
             /\ stats' = stats
             /\ cleanups' = cleanups ]_vars

\* C4's case: the last call was unforced, asked for another max_members than
\* the registered pool has, and got the registered pool, whose queue it left
\* filled.
C4_Witness ==
    /\ ret.pool >= 1
    /\ ~ret.force
    /\ ret.pool = Registered(TheClass)
    /\ ret.cfg.max_members # pools[ret.pool].max_pool_object
    /\ ret.cfg.pre_check # pools[ret.pool].pre_check
    /\ Len(pools[ret.pool].queue) = 2

\* C5: ObjectPool(klass, ..., force=True) with a max_members >= 0, for a class
\* that has a registered pool, constructs an instance that is none of the
\* existing ones and registers it; the previous pool keeps its fields and its
\* queue, and the cleanup hook is not called.
C5_ForceReplacesWithoutDrain ==
    [][ \A cfg \in Configs :
          (/\ PoolExists(registry, TheClass)
           /\ cfg.max_members >= 0
           /\ Call(TheClass, cfg, TRUE))
          => LET old == Registered(TheClass)
             IN  /\ ret'.pool # old
                 /\ ret'.pool \notin 1..Len(pools)
                 /\ ret'.pool \in 1..Len(pools')
                 /\ registry'[ClassName(TheClass)] = ret'.pool
                 /\ pools'[old] = pools[old]
                 /\ \A m \in 1..Len(stats) : stats'[m] = stats[m]
                 /\ cleanups' = cleanups ]_vars

\* C5's case: a forced call returned pool 2, now registered, while pool 1,
\* which has a cleanup hook, still holds its two members and no cleanup ran.
C5_Witness ==
    /\ ret.pool = 2
    /\ ret.force
    /\ Registered(TheClass) = 2
    /\ pools[1].cleanup_func
    /\ Len(pools[1].queue) = 2
    /\ held = {}
    /\ cleanups = <<>>

\* C6: destroy() on a registered pool with K queued members calls the cleanup
\* hook (when the pool has one) once per queued member, K times in all and in
\* queue order, leaves the queue empty and the class unregistered; and an
\* unforced ObjectPool(klass, ...) for an unregistered class constructs an
\* instance that is none of the existing ones.
C6_DestroyDrainsAndDeregisters ==
    [][ /\ \A p \in 1..Len(pools) :
            (Registered(pools[p].klass) = p /\ Destroy(p))
            => /\ cleanups' = IF pools[p].cleanup_func
                              THEN cleanups \o pools[p].queue
                              ELSE cleanups
               /\ Len(pools'[p].queue) = 0
               /\ ~PoolExists(registry', pools[p].klass)
        /\ \A cfg \in Configs :
            (/\ ~PoolExists(registry, TheClass)
             /\ cfg.max_members >= 0
             /\ Call(TheClass, cfg, FALSE))
            => /\ ret'.pool = Len(pools) + 1
               /\ Len(pools') = Len(pools) + 1
               /\ registry'[ClassName(TheClass)] = ret'.pool ]_vars

\* C6's case: pool 1 was destroyed with its two members queued, the hook ran
\* on both, and the next unforced call constructed pool 2.
C6_Witness ==
    /\ cleanups = <<1, 2>>
    /\ Len(pools) = 2
    /\ pools[1].queue = <<>>
    /\ ~ret.force
    /\ ret.pool = 2
    /\ Registered(TheClass) = 2

-----------------------------------------------------------------------------
(* SpecCycle: the tests' driver.  One pool is created, then                *)
(* `with pool.get() as (item, item_stats)' blocks run one after another,   *)
(* with sleeps in between, as in test_pool_validation_behaviour.py.        *)

\* The configurations the driver creates its pool with.
CycleConfigs ==
    {Cfg(1, mr, 0, FALSE, TRUE, FALSE, FALSE, TRUE) : mr \in {1, 2}}
    \cup {Cfg(1, DefaultMaxReusable, 0, FALSE, TRUE, FALSE, FALSE, FALSE)}
    \cup {Cfg(mm, mr, 1, TRUE, FALSE, FALSE, chk, TRUE) :
            mm \in {1, 2}, mr \in {0, 1}, chk \in BOOLEAN}
    \cup {Cfg(mm, mr, 1, FALSE, TRUE, FALSE, FALSE, TRUE) :
            mm \in {1, 2}, mr \in {0, 1}}
    \cup {Cfg(1, 1, 1, FALSE, TRUE, FALSE, TRUE, TRUE)}

\* setUp and the test's first line: self.pool = ObjectPool(self.klass, ...)
InitCycle ==
    \E cfg \in CycleConfigs :
        LET r == MetaCall([n \in {ClassName(k) : k \in Classes} |-> NoPool],
                          <<>>, <<>>, TheClass, cfg, FALSE, 0)
        IN  /\ registry = r.registry
            /\ pools = r.pools
            /\ stats = r.stats
            /\ ret = [pool |-> r.ret, klass |-> TheClass, cfg |-> cfg,
                      force |-> FALSE]
            /\ cleanups = <<>>
            /\ now = 0
            /\ held = {}
            /\ borrows = 0
            /\ first = NoMember
            /\ cur = NoMember
            /\ curExpired = FALSE
            /\ fabricated = 0
            /\ pc = [t \in Threads |-> "idle"]
            /\ loc = [t \in Threads |-> Idle]

\* The driver's pool.
ThePool == 1

\* The test slept past the expiry of the member at the head of the queue.
HeadExpired ==
    LET P == pools[ThePool]
    IN  /\ Len(P.queue) > 0
        /\ P.expire_in_secs # 0
        /\ now - stats[Head(P.queue)].created_at > P.expire_in_secs

\* with self.pool.get() as (item, item_stats): Executor.__enter__
Enter(answer) ==
    LET r == GetMember(pools[ThePool], answer, NoLag, stats, cleanups, now)
    IN  /\ held = {}
        /\ borrows < pools[ThePool].max_reusable_count + CycleSlack
        /\ Len(r.stats) <= MaxCycleObjects
        /\ pools' = [pools EXCEPT ![ThePool].queue = r.queue]
        /\ stats' = r.stats
        /\ cleanups' = r.cleanups
        /\ held' = {<<ThePool, r.member>>}
        /\ borrows' = borrows + 1
        /\ first' = IF borrows = 0 THEN r.member ELSE first
        /\ cur' = r.member
        /\ curExpired' = HeadExpired
        /\ UNCHANGED <<registry, now, ret, fabricated, threads>>

\* The end of the with block: Executor.__exit__
Exit(answer) ==
    LET r == QueueMember(pools[ThePool], cur, answer, NoLag, stats, cleanups, now)
    IN  /\ held = {<<ThePool, cur>>}
        /\ Len(r.stats) <= MaxCycleObjects
        /\ pools' = [pools EXCEPT ![ThePool].queue = r.queue]
        /\ stats' = r.stats
        /\ cleanups' = r.cleanups
        /\ held' = {}
        /\ UNCHANGED <<registry, now, ret, driver, threads>>

NextCycle ==
    \/ \E answer \in Answers(pools[ThePool]) : Enter(answer)
    \/ \E answer \in Answers(pools[ThePool]) : Exit(answer)
    \/ Tick

SpecCycle == InitCycle /\ [][NextCycle]_vars

-----------------------------------------------------------------------------
(* Claims about expiry, under SpecCycle *)

\* The driver is between two blocks.
BetweenBlocks == held = {}

\* The pool of C7: one member, created eagerly, checked after use only,
\* expiring by reuse count only, no check hook, a cleanup hook.
C7Pool ==
    /\ ret.cfg.max_members = 1
    /\ ~ret.cfg.lazy
    /\ pools[ThePool].max_reusable_count >= 1
    /\ pools[ThePool].post_check
    /\ ~pools[ThePool].pre_check
    /\ pools[ThePool].expire_in_secs = 0
    /\ ~pools[ThePool].check_func
    /\ pools[ThePool].cleanup_func

\* C7 as claimed: after max_reusable + 1 blocks the first member has been
\* replaced and the cleanup hook was called once, on it.
C7_Original ==
    (C7Pool /\ BetweenBlocks
       /\ borrows = pools[ThePool].max_reusable_count + 1)
    => /\ pools[ThePool].queue # <<first>>
       /\ cleanups = <<first>>

\* C7, amended: through max_reusable + 1 blocks the pool still queues the
\* first member, its count the number of blocks, and no cleanup ran; after
\* max_reusable + 2 blocks the queue holds one member, a new one with fresh
\* stats, and the cleanup hook was called exactly once, on the first member.
C7_ReplacedAfterRPlusTwo ==
    (C7Pool /\ BetweenBlocks /\ borrows >= 1)
    => LET R == pools[ThePool].max_reusable_count
           q == pools[ThePool].queue
       IN  /\ borrows <= R + 1
               => /\ q = <<first>>
                  /\ stats[first].count = borrows
                  /\ cleanups = <<>>
           /\ borrows = R + 2
               => /\ Len(q) = 1
                  /\ q[1] # first
                  /\ stats[q[1]].count = 0
                  /\ ~stats[q[1]].new
                  /\ cleanups = <<first>>

\* C7's case: max_reusable = 2, four blocks done, the first member cleaned
\* up once and another one queued.
C7_Witness ==
    /\ C7Pool
    /\ BetweenBlocks
    /\ pools[ThePool].max_reusable_count = 2
    /\ borrows = 4
    /\ cleanups = <<first>>
    /\ pools[ThePool].queue = <<2>>

\* The pool of test_with_non_expiry: max_members=1, expires=0, the rest the
\* defaults of __call__, a class without hooks.
C8Pool ==
    ret.cfg = Cfg(1, DefaultMaxReusable, 0, FALSE, TRUE, FALSE, FALSE, FALSE)

\* C8 as claimed: every block gets the member the first block got.
C8_Original == (C8Pool /\ borrows >= 1) => cur = first

\* C8, amended: each of the first max_reusable + 2 (22) blocks gets the member
\* the first block got, whatever the clock shows; the block after them gets
\* another member.
C8_SameMemberUntilReuseLimit ==
    (C8Pool /\ borrows >= 1)
    => /\ borrows <= DefaultMaxReusable + 2 => cur = first
       /\ borrows = DefaultMaxReusable + 3 => cur # first

\* C8's case: the 22nd block, entered after the clock ran to its end, holds
\* the first member.
C8_Witness ==
    /\ C8Pool
    /\ borrows = DefaultMaxReusable + 2
    /\ held = {<<ThePool, first>>}
    /\ now = MaxTime
    /\ stats[first].created_at = 0

\* The pools of C9: checked before use only, expiring by age.
C9Pool ==
    /\ pools[ThePool].pre_check
    /\ ~pools[ThePool].post_check
    /\ pools[ThePool].expire_in_secs > 0

\* The age of member m.
Age(m) == now - stats[m].created_at

\* get_member took member h from the queue and handed out a new member in
\* its place, after the cleanup of h.
Replaced(h) ==
    /\ cur' = Len(stats) + 1
    /\ Len(stats') = Len(stats) + 1
    /\ stats'[cur'] = GetDefaultStats(FALSE, now)
    /\ cleanups' = IF pools[ThePool].cleanup_func
                   THEN Append(cleanups, h) ELSE cleanups

\* C9 as claimed, read for pools without a check hook: a borrow that
\* dequeues a member older than expires returns a new member, the old one
\* cleaned up; one that dequeues a member no older than expires returns that
\* member.
C9_Original ==
    [][ \A answer \in BOOLEAN :
          (/\ C9Pool
           /\ ~pools[ThePool].check_func
           /\ Len(pools[ThePool].queue) > 0
           /\ Enter(answer))
          => LET h == Head(pools[ThePool].queue)
             IN  /\ Age(h) > pools[ThePool].expire_in_secs => Replaced(h)
                 /\ Age(h) <= pools[ThePool].expire_in_secs => cur' = h ]_vars

\* C9, amended: as claimed for the member older than expires; the member no
\* older than expires is returned provided it is not invalid for another
\* reason: its count is at most max_reusable (or max_reusable is 0) and the
\* check hook, if any, does not answer true.
C9_AgeExpiryAtBorrow ==
    [][ \A answer \in BOOLEAN :
          (C9Pool /\ Len(pools[ThePool].queue) > 0 /\ Enter(answer))
          => LET P == pools[ThePool]
                 h == Head(P.queue)
             IN  /\ Age(h) > P.expire_in_secs => Replaced(h)
                 /\ (/\ Age(h) <= P.expire_in_secs
                     /\ (P.max_reusable_count = 0
                           \/ stats[h].count <= P.max_reusable_count)
                     /\ ~(P.check_func /\ answer))
                    => /\ cur' = h
                       /\ cleanups' = cleanups ]_vars

\* C9's case: the second block was entered after the test slept past the
\* first member's expiry, and got another member; the first was cleaned up.
C9_Witness ==
    /\ C9Pool
    /\ ~pools[ThePool].check_func
    /\ borrows = 2
    /\ curExpired
    /\ cur # first
    /\ held = {<<ThePool, cur>>}
    /\ cleanups = <<first>>

\* The pools of C10: checked after use only, expiring by age.
C10Pool ==
    /\ ~pools[ThePool].pre_check
    /\ pools[ThePool].post_check
    /\ pools[ThePool].expire_in_secs > 0

\* C10: with pre_check off and post_check on, a borrow returns the queued
\* member as it is, expired or not (no stats change, no cleanup); the release
\* of a member that was expired when borrowed cleans it up and queues a new
\* member in its place; and the borrow after that returns a member different
\* from the expired one.
C10_ExpiryDetectedAtRelease ==
    [][ \A answer \in BOOLEAN :
          LET P == pools[ThePool]
          IN  /\ (C10Pool /\ Len(P.queue) > 0 /\ Enter(answer))
                 => /\ cur' = Head(P.queue)
                    /\ stats' = stats
                    /\ cleanups' = cleanups
              /\ (C10Pool /\ curExpired /\ Exit(answer))
                 => /\ pools'[ThePool].queue = Append(P.queue, Len(stats) + 1)
                    /\ Len(stats') = Len(stats) + 1
                    /\ stats'[Len(stats) + 1] = GetDefaultStats(FALSE, now)
                    /\ cleanups' = IF P.cleanup_func
                                   THEN Append(cleanups, cur) ELSE cleanups
              /\ (C10Pool /\ curExpired /\ Enter(answer))
                 => cur' # cur ]_vars

\* C10's case: the second block got the first member although the test had
\* slept past its expiry; its release cleaned that member up and queued a new
\* one; the third block holds the new one.
C10_Witness ==
    /\ C10Pool
    /\ ret.cfg.max_members = 1
    /\ borrows = 3
    /\ cleanups = <<first>>
    /\ ~curExpired
    /\ cur = 2
    /\ held = {<<ThePool, cur>>}

\* The validity policy as the specification words it: the member is invalid
\* when the check hook answers true, or max_reusable is not 0 and the count
\* is above it, or expires is not 0 and the clock is past created_at +
\* expires, a stats dict without created_at counting as expired.
StatedInvalid(P, st, answer, t) ==
    \/ P.check_func /\ answer
    \/ P.max_reusable_count # 0 /\ st.count > P.max_reusable_count
    \/ /\ P.expire_in_secs # 0
       /\ \/ st.created_at = NoTime
          \/ t > st.created_at + P.expire_in_secs

\* The pools of C11: checked after use only.
C11Pool ==
    /\ ~pools[ThePool].pre_check
    /\ pools[ThePool].post_check

\* C11: with pre_check off and post_check on, the release of a valid member
\* queues that member and advances its stats by one use (count + 1, new
\* false, last_used the clock, created_at as it was), creating nothing and
\* cleaning nothing up; a borrow changes no stats dict; so on a pool of one
\* member the k-th block in a row that gets the first member sees its count
\* at k - 1.
C11_ReleaseAdvancesByOne ==
    /\ [](( /\ C11Pool
            /\ ret.cfg.max_members = 1
            /\ held = {<<ThePool, cur>>}
            /\ cur = first )
          => stats[cur].count = borrows - 1)
    /\ [][ \A answer \in BOOLEAN :
            LET P == pools[ThePool]
            IN  /\ ( /\ C11Pool
                     /\ Exit(answer)
                     /\ ~StatedInvalid(P, stats[cur], answer, now) )
                   => /\ pools'[ThePool].queue = Append(P.queue, cur)
                      /\ stats'[cur].count = stats[cur].count + 1
                      /\ stats'[cur].new = FALSE
                      /\ stats'[cur].last_used = now
                      /\ stats'[cur].created_at = stats[cur].created_at
                      /\ Len(stats') = Len(stats)
                      /\ \A m \in 1..Len(stats) :
                            m # cur => stats'[m] = stats[m]
                      /\ cleanups' = cleanups
                /\ (C11Pool /\ Enter(answer))
                   => \A m \in 1..Len(stats) : stats'[m] = stats[m] ]_vars

\* C11's case: on a pool of one member that expires by age, with a check
\* hook that found nothing, the second block, entered right after the
\* first, holds the first member with count 1.
C11_Witness ==
    /\ C11Pool
    /\ ret.cfg.max_members = 1
    /\ pools[ThePool].expire_in_secs > 0
    /\ pools[ThePool].check_func
    /\ now = 0
    /\ borrows = 2
    /\ held = {<<ThePool, first>>}
    /\ stats[first] = [count |-> 1, new |-> FALSE, created_at |-> 0,
                       last_used |-> 0]

-----------------------------------------------------------------------------
(* SpecPool: one client and one pool.  The client creates the pool, then   *)
(* borrows and releases members in any order, holding any number of them   *)
(* at a time (nested `with pool.get()' blocks, or get_member and           *)
(* queue_member called directly), while the clock runs.                    *)

\* The configurations the client creates the pool with: every max_members
\* from -1 to MaxFill, eager and lazy, every combination of pre_check and
\* post_check, expiring after one reuse, and by age or not; and a pool of
\* one member checked before and after use, expiring after two reuses.
PoolConfigs ==
    {Cfg(mm, 1, ex, pre, post, lazy, FALSE, TRUE) :
        mm \in -1..MaxFill, ex \in {0, 1},
        pre \in BOOLEAN, post \in BOOLEAN, lazy \in BOOLEAN}
    \cup {Cfg(1, 2, ex, TRUE, TRUE, FALSE, FALSE, TRUE) : ex \in {0, 1}}

\* pool = ObjectPool(klass, **cfg), the first pool of the class.
Create(cfg) ==
    LET r == MetaCall(registry, pools, stats, TheClass, cfg, FALSE, now)
    IN  /\ Len(pools) = 0
        /\ registry' = r.registry
        /\ pools' = r.pools
        /\ stats' = r.stats
        /\ ret' = [pool |-> r.ret, klass |-> TheClass, cfg |-> cfg,
                   force |-> FALSE]
        /\ UNCHANGED <<cleanups, now, held, driver, threads>>

\* pool.get_member(), or the entry of a `with pool.get()' block.
PoolGet(answer) ==
    LET P == pools[ThePool]
        r == GetMember(P, answer, NoLag, stats, cleanups, now)
    IN  /\ Len(pools) >= 1
        /\ borrows < MaxBorrows
        /\ pools' = [pools EXCEPT ![ThePool].queue = r.queue]
        /\ stats' = r.stats
        /\ cleanups' = r.cleanups
        /\ held' = held \cup {<<ThePool, r.member>>}
        /\ borrows' = borrows + 1
        /\ fabricated' = IF Len(P.queue) = 0 THEN fabricated + 1
                         ELSE fabricated
        /\ UNCHANGED <<registry, now, ret, first, cur, curExpired, threads>>

\* pool.queue_member(m, m_stats), or the exit of the block that was given m.
PoolPut(m, answer) ==
    LET r == QueueMember(pools[ThePool], m, answer, NoLag, stats, cleanups, now)
    IN  /\ <<ThePool, m>> \in held
        /\ pools' = [pools EXCEPT ![ThePool].queue = r.queue]
        /\ stats' = r.stats
        /\ cleanups' = r.cleanups
        /\ held' = held \ {<<ThePool, m>>}
        /\ UNCHANGED <<registry, now, ret, driver, threads>>

NextPool ==
    \/ \E cfg \in PoolConfigs : Create(cfg)
    \/ \E answer \in BOOLEAN :
          /\ Len(pools) >= 1
          /\ answer \in Answers(pools[ThePool])
          /\ PoolGet(answer)
    \/ \E pm \in held : \E answer \in Answers(pools[ThePool]) :
          PoolPut(pm[2], answer)
    \/ Tick

SpecPool == InitEmpty /\ [][NextPool]_vars

-----------------------------------------------------------------------------
(* Claims about one pool in one client's hands, under SpecPool *)

\* The size() of the client's pool.
Size == Len(pools[ThePool].queue)

\* C12: a successful ObjectPool(klass, ...) for a class without a pool
\* leaves the new pool with max_members queued members when lazy is false,
\* for every max_members >= 1, each a new object with the stats of a new
\* member (count 0, new true, created_at and last_used the clock), and with
\* an empty queue when lazy is true or max_members is 0.
C12_InitialFill ==
    [][ \A cfg \in PoolConfigs :
          (Create(cfg) /\ cfg.max_members >= 0)
          => LET q == pools'[ThePool].queue
             IN  /\ ret'.pool = ThePool
                 /\ Len(q) = IF cfg.lazy \/ cfg.max_members = 0 THEN 0
                             ELSE cfg.max_members
                 /\ Len(stats') = Len(q)
                 /\ \A i, j \in 1..Len(q) : i # j => q[i] # q[j]
                 /\ \A i \in 1..Len(q) :
                       stats'[q[i]] = [count |-> 0, new |-> TRUE,
                                       created_at |-> now, last_used |-> now]
                 /\ cleanups' = cleanups ]_vars

\* C12's case: a pool was just created, after the clock had moved, eager and
\* with the largest max_members, and holds that many members.
C12_Witness ==
    /\ Len(pools) = 1
    /\ borrows = 0
    /\ now > 0
    /\ ~ret.cfg.lazy
    /\ ret.cfg.max_members = MaxFill
    /\ Size = MaxFill
    /\ \A i \in 1..Size : stats[pools[ThePool].queue[i]].created_at = now

C20_CountAtMostRPlusOne ==
    /\ [](Len(pools) >= 1 /\ pools[ThePool].max_reusable_count > 0
            => \A m \in 1..Len(stats) :
                  /\ 0 <= stats[m].count
                  /\ stats[m].count <= pools[ThePool].max_reusable_count + 1)
    /\ [][ \A answer \in BOOLEAN :
            /\ \A m \in 1..Len(stats) :
                  LET P == pools[ThePool]
                      spent == /\ P.max_reusable_count > 0
                               /\ stats[m].count = P.max_reusable_count + 1
                  IN  /\ spent => stats'[m] = stats[m]
                      /\ (PoolPut(m, answer) /\ P.post_check /\ spent)
                         => /\ pools'[ThePool].queue
                                  = Append(P.queue, Len(stats) + 1)
                            /\ Len(stats') = Len(stats) + 1
                            /\ cleanups' = Append(cleanups, m)
            /\ ( /\ PoolGet(answer)
                 /\ pools[ThePool].pre_check
                 /\ pools[ThePool].max_reusable_count > 0
                 /\ Size > 0
                 /\ stats[Head(pools[ThePool].queue)].count
                       = pools[ThePool].max_reusable_count + 1 )
               => /\ held' = held \cup {<<ThePool, Len(stats) + 1>>}
                  /\ Len(stats') = Len(stats) + 1
                  /\ cleanups' = Append(cleanups, Head(pools[ThePool].queue))
          ]_vars

\* C20's case: in a pool checked before and after use with max_reusable = 2,
\* the first member reached count 3 and was cleaned up at its next check;
\* the queue holds its replacement and the count is still 3.
C20_Witness ==
    /\ Len(pools) = 1
    /\ pools[ThePool].pre_check
    /\ pools[ThePool].post_check
    /\ pools[ThePool].max_reusable_count = 2
    /\ stats[1].count = 3
    /\ cleanups = <<1>>
    /\ held = {}
    /\ pools[ThePool].queue = <<2>>

-----------------------------------------------------------------------------
(* Further claims about the registry, under Spec *)

\* C16 as claimed, for the calls that reach the constructor (forced, or for
\* a class without a pool): ObjectPool(klass, max_members < 0, ...) raises,
\* creates no instance and no member, and leaves the registry as it was.
C16_FailedCallChangesNothing ==
    [][ \A cfg \in Configs, force \in BOOLEAN :
          (/\ cfg.max_members < 0
           /\ force \/ ~PoolExists(registry, TheClass)
           /\ Call(TheClass, cfg, force))
          => /\ ret'.pool = Raised
             /\ pools' = pools
             /\ stats' = stats
             /\ registry' = registry ]_vars

\* C19 as claimed: destroy() on a pool that is not the one registered for
\* its class leaves the registry as it is.
C19_StaleDestroyKeepsEntry ==
    [][ \A p \in 1..Len(pools) :
          (Registered(pools[p].klass) # p /\ Destroy(p))
          => registry' = registry ]_vars

-----------------------------------------------------------------------------
(* SpecTypes: one client creating and destroying pools for several classes, *)
(* with a cleanup hook that may raise while destroy() drains.              *)

\* The configurations the client asks for.
TypeConfigs ==
    { Cfg(1, 1, 0, FALSE, TRUE, FALSE, FALSE, TRUE),
      Cfg(2, 1, 0, FALSE, TRUE, FALSE, FALSE, TRUE) }

\* pool.destroy() when the cleanup hook raises on its n-th call.
DestroyRaises(p, n) ==
    LET r == DrainUntilRaise(pools[p], pools[p].queue, cleanups, n)
    IN  /\ r.raised
        /\ cleanups' = r.cleanups
        /\ pools' = [pools EXCEPT ![p].queue = r.queue]
        /\ ret' = [pool |-> HookRaised, destroyed |-> p]
        /\ UNCHANGED <<registry, stats, now, held, driver, threads>>

NextTypes ==
    \/ \E klass \in Classes, cfg \in TypeConfigs, force \in BOOLEAN :
          Call(klass, cfg, force)
    \/ \E p \in 1..Len(pools) : Destroy(p)
    \/ \E p \in 1..Len(pools) : \E n \in 1..Len(pools[p].queue) :
          DestroyRaises(p, n)

SpecTypes == InitEmpty /\ [][NextTypes]_vars

-----------------------------------------------------------------------------
(* Claims about several classes and about a failing hook, under SpecTypes *)

\* C15 as claimed: the pool ObjectPool(klass, ...) returns is a pool of
\* klass, so that two classes never get the same pool.
C15_PoolOfTheClassAsked ==
    ret.pool >= 1 => pools[ret.pool].klass = ret.klass

\* C17: when the cleanup hook raises on its n-th call while destroy() drains
\* a queue of K members, destroy() ends by that exception; the hook was
\* called on the first n members and on no other, the K - n members behind
\* them are still queued in their order, and the registry is as it was: a
\* pool that was registered still is.
C17_FailedDestroyStops ==
    [][ \A p \in 1..Len(pools) : \A n \in 1..Len(pools[p].queue) :
          DestroyRaises(p, n)
          => LET q == pools[p].queue
             IN  /\ ret'.pool = HookRaised
                 /\ cleanups' = cleanups \o SubSeq(q, 1, n)
                 /\ pools'[p].queue = SubSeq(q, n + 1, Len(q))
                 /\ registry' = registry
                 /\ Registered(pools[p].klass) = p
                    => PoolExists(registry', pools[p].klass) ]_vars

\* C17's case: destroy() of a registered pool with two queued members ended
\* by the exception of the hook's first call; the second member is still
\* queued and the pool still registered.
C17_Witness ==
    /\ ret.pool = HookRaised
    /\ Len(pools) >= 1
    /\ ret.destroyed = 1
    /\ pools[1].queue = <<2>>
    /\ cleanups = <<1>>
    /\ Registered(pools[1].klass) = 1

-----------------------------------------------------------------------------
(* SpecPolicy: the validity policy on every input.  A pool and one member   *)
(* with any stats dict, as a client may hand to queue_member: any count,   *)
(* any created_at or none, at any clock.  The member is checked once, at   *)
(* its release by a pool that checks after use, or at its borrow by a pool *)
(* that checks before use.                                                 *)

\* The pools: checked before or after use, expiring by count, by age, by
\* both or not at all, with and without a check hook.
PolicyConfigs ==
    {Cfg(0, mr, ex, pre, ~pre, TRUE, chk, TRUE) :
        mr \in {0, 1}, ex \in {0, 1}, pre \in BOOLEAN, chk \in BOOLEAN}

\* The stats dicts.
PolicyStats ==
    [count : 0..MaxInputCount, new : BOOLEAN,
     created_at : {NoTime} \cup (0..MaxTime), last_used : {0}]

\* The member is queued in a pool that checks before use, and in the
\* client's hands in a pool that checks after use.
InitPolicy ==
    \E cfg \in PolicyConfigs, st \in PolicyStats, t \in 0..MaxTime :
        /\ registry = [n \in {ClassName(k) : k \in Classes} |->
                          IF n = ClassName(TheClass) THEN ThePool ELSE NoPool]
        /\ pools = << [NewPool(TheClass, cfg, <<>>) EXCEPT
                         !.queue = IF cfg.pre_check THEN <<1>> ELSE <<>>] >>
        /\ stats = <<st>>
        /\ ret = [pool |-> ThePool, klass |-> TheClass, cfg |-> cfg,
                  force |-> FALSE]
        /\ cleanups = <<>>
        /\ now = t
        /\ held = IF cfg.pre_check THEN {} ELSE {<<ThePool, 1>>}
        /\ borrows = 0
        /\ first = NoMember
        /\ cur = NoMember
        /\ curExpired = FALSE
        /\ fabricated = 0
        /\ pc = [u \in Threads |-> "idle"]
        /\ loc = [u \in Threads |-> Idle]

\* pool.get_member() of the queued member, with the pre-check.
PolicyGet(answer, lag) ==
    LET r == GetMember(pools[ThePool], answer, lag, stats, cleanups, now)
    IN  /\ borrows = 0
        /\ pools[ThePool].queue = <<1>>
        /\ pools' = [pools EXCEPT ![ThePool].queue = r.queue]
        /\ stats' = r.stats
        /\ cleanups' = r.cleanups
        /\ held' = {<<ThePool, r.member>>}
        /\ borrows' = 1
        /\ cur' = r.member
        /\ UNCHANGED <<registry, now, ret, first, curExpired, fabricated,
                       threads>>

\* pool.queue_member(member, member_stats), with the post-check.
PolicyPut(answer, lag) ==
    LET r == QueueMember(pools[ThePool], 1, answer, lag, stats, cleanups, now)
    IN  /\ borrows = 0
        /\ held = {<<ThePool, 1>>}
        /\ pools' = [pools EXCEPT ![ThePool].queue = r.queue]
        /\ stats' = r.stats
        /\ cleanups' = r.cleanups
        /\ held' = {}
        /\ borrows' = 1
        /\ cur' = r.member
        /\ UNCHANGED <<registry, now, ret, first, curExpired, fabricated,
                       threads>>

NextPolicy ==
    \/ \E answer \in Answers(pools[ThePool]), lag \in Lags(stats[1]) :
          PolicyGet(answer, lag)
    \/ \E answer \in Answers(pools[ThePool]), lag \in Lags(stats[1]) :
          PolicyPut(answer, lag)

SpecPolicy == InitPolicy /\ [][NextPolicy]_vars

-----------------------------------------------------------------------------
(* Claims about the validity policy, under SpecPolicy *)

\* C18 as claimed: the check of a member, at release or at borrow, cleans
\* the member up and returns a new one with new stats (count 0, new false)
\* exactly when the policy as worded calls the member invalid, a stats dict
\* without created_at counting as expired; otherwise it returns the same
\* member, its stats advanced by one use.
C18_DecisionIsStatedPolicy ==
    [][ \A answer \in BOOLEAN, lag \in {0, 1} :
          (PolicyGet(answer, lag) \/ PolicyPut(answer, lag))
          => IF StatedInvalid(pools[ThePool], stats[1], answer, now)
             THEN /\ cur' = 2
                  /\ stats' = <<stats[1], [count |-> 0, new |-> FALSE,
                                           created_at |-> now,
                                           last_used |-> now]>>
                  /\ cleanups' = <<1>>
             ELSE /\ cur' = 1
                  /\ stats' = << [stats[1] EXCEPT !.count = @ + 1,
                                                  !.new = FALSE,
                                                  !.last_used = now] >>
                  /\ cleanups' = <<>> ]_vars

-----------------------------------------------------------------------------
(* SpecConc: threads sharing one pool.  Each thread runs get_member,        *)
(* queue_member and destroy statement by statement; a step is a statement  *)
(* that reads or writes what the threads share (the queue, the registry,   *)
(* the heap), queue.Queue's own methods being atomic.                      *)

\* The configurations of the shared pool.
ConcConfigs ==
    { Cfg(1, 1, 0, FALSE, TRUE, FALSE, FALSE, TRUE),
      Cfg(2, 1, 0, TRUE, FALSE, FALSE, TRUE, FALSE) }

InitConc ==
    \E cfg \in ConcConfigs :
        LET r == MetaCall([n \in {ClassName(k) : k \in Classes} |-> NoPool],
                          <<>>, <<>>, TheClass, cfg, FALSE, 0)
        IN  /\ registry = r.registry
            /\ pools = r.pools
            /\ stats = r.stats
            /\ ret = [pool |-> r.ret, klass |-> TheClass, cfg |-> cfg,
                      force |-> FALSE]
            /\ cleanups = <<>>
            /\ now = 0
            /\ held = {}
            /\ borrows = 0
            /\ first = NoMember
            /\ cur = NoMember
            /\ curExpired = FALSE
            /\ fabricated = 0
            /\ pc = [t \in Threads |-> "idle"]
            /\ loc = [t \in Threads |-> Idle]

Queue == pools[ThePool].queue

SetQueue(q) == pools' = [pools EXCEPT ![ThePool].queue = q]

Goto(t, label) == pc' = [pc EXCEPT ![t] = label]

client == <<now, held, ret, driver>>

\* get_member, line 141: pool_size = self.get_pool_size()
GmSize(t) ==
    /\ pc[t] = "idle"
    /\ loc[t].obj = NoMember
    /\ Goto(t, IF Len(Queue) = 0 THEN "gm_new" ELSE "gm_get")
    /\ UNCHANGED <<registry, pools, stats, cleanups, loc, client>>

\* get_member, lines 144-145 and 151: the queue was empty.
GmNew(t) ==
    /\ pc[t] = "gm_new"
    /\ Len(stats) < MaxConcObjects
    /\ loc' = [loc EXCEPT ![t].obj = CreateNewInstance(stats)]
    /\ stats' = Append(stats, GetDefaultStats(TRUE, now))
    /\ Goto(t, "idle")
    /\ UNCHANGED <<registry, pools, cleanups, client>>

\* get_member, line 147: self.__pool.get(), which waits while the queue is
\* empty.
GmGet(t) ==
    /\ pc[t] = "gm_get"
    /\ Len(Queue) > 0
    /\ loc' = [loc EXCEPT ![t].obj = Head(Queue)]
    /\ SetQueue(QueueGet(Queue))
    /\ Goto(t, IF pools[ThePool].pre_check THEN "gm_check" ELSE "idle")
    /\ UNCHANGED <<registry, stats, cleanups, client>>

\* get_member, lines 148-151: the pre-check.
GmCheck(t, answer) ==
    LET r == CheckAndGetMember(pools[ThePool], loc[t].obj, answer, NoLag,
                               stats, cleanups, now)
    IN  /\ pc[t] = "gm_check"
        /\ Len(r.stats) <= MaxConcObjects
        /\ loc' = [loc EXCEPT ![t].obj = r.member]
        /\ stats' = r.stats
        /\ cleanups' = r.cleanups
        /\ Goto(t, "idle")
        /\ UNCHANGED <<registry, pools, client>>

\* queue_member, lines 161-162: the post-check of the pair the thread holds.
QmCheck(t, answer) ==
    LET P == pools[ThePool]
        r == IF P.post_check
             THEN CheckAndGetMember(P, loc[t].obj, answer, NoLag, stats, cleanups,
                                    now)
             ELSE [member |-> loc[t].obj, stats |-> stats, cleanups |-> cleanups]
    IN  /\ pc[t] = "idle"
        /\ loc[t].obj # NoMember
        /\ Len(r.stats) <= MaxConcObjects
        /\ loc' = [loc EXCEPT ![t].obj = r.member]
        /\ stats' = r.stats
        /\ cleanups' = r.cleanups
        /\ Goto(t, "qm_put")
        /\ UNCHANGED <<registry, pools, client>>

\* queue_member, line 164: self.__pool.put((member, member_stats))
QmPut(t) ==
    /\ pc[t] = "qm_put"
    /\ SetQueue(QueuePut(Queue, loc[t].obj))
    /\ loc' = [loc EXCEPT ![t].obj = NoMember]
    /\ Goto(t, "idle")
    /\ UNCHANGED <<registry, stats, cleanups, client>>

\* destroy, line 185: if self.get_pool_size() == 0
DsSize(t) ==
    /\ pc[t] \in {"idle", "ds_size"}
    /\ loc[t].obj = NoMember
    /\ Goto(t, IF Len(Queue) = 0 THEN "ds_remove" ELSE "ds_get")
    /\ UNCHANGED <<registry, pools, stats, cleanups, loc, client>>

\* destroy, line 188: self.__pool.get(), which waits while the queue is empty.
DsGet(t) ==
    /\ pc[t] = "ds_get"
    /\ Len(Queue) > 0
    /\ loc' = [loc EXCEPT ![t].victim = Head(Queue)]
    /\ SetQueue(QueueGet(Queue))
    /\ Goto(t, "ds_cleanup")
    /\ UNCHANGED <<registry, stats, cleanups, client>>

\* destroy, line 189: self.__member_cleanup(member, stats)
DsCleanup(t) ==
    /\ pc[t] = "ds_cleanup"
    /\ cleanups' = MemberCleanup(pools[ThePool], cleanups, loc[t].victim)
    /\ loc' = [loc EXCEPT ![t].victim = NoMember]
    /\ Goto(t, "ds_size")
    /\ UNCHANGED <<registry, pools, stats, client>>

\* destroy, line 191: SingletonMetaPoolRegistry._remove_pool(klass)
DsRemove(t) ==
    /\ pc[t] = "ds_remove"
    /\ registry' = DestroyRegistry(registry, pools[ThePool])
    /\ Goto(t, "idle")
    /\ UNCHANGED <<pools, stats, cleanups, loc, client>>

NextConc ==
    \E t \in Threads :
        \/ GmSize(t)
        \/ GmNew(t)
        \/ GmGet(t)
        \/ \E answer \in Answers(pools[ThePool]) : GmCheck(t, answer)
        \/ \E answer \in Answers(pools[ThePool]) : QmCheck(t, answer)
        \/ QmPut(t)
        \/ DsSize(t)
        \/ DsGet(t)
        \/ DsCleanup(t)
        \/ DsRemove(t)

SpecConc == InitConc /\ [][NextConc]_vars

-----------------------------------------------------------------------------
(* Claims about threads sharing a pool, under SpecConc *)

\* Thread t is inside self.__pool.get() and the queue is empty: it waits
\* until another thread puts a member.
Waiting(t) == pc[t] \in {"gm_get", "ds_get"} /\ Len(Queue) = 0

\* C1: no thread is ever blocked inside get_member (or inside destroy's
\* loop) waiting for an element of the queue.
C1_NeverBlocked == \A t \in Threads : ~Waiting(t)

\* The members thread t has in hand: borrowed, being checked, being put back
\* or being cleaned up by destroy.
InHand(t) == {loc[t].obj, loc[t].victim} \ {NoMember}

\* The number of places member m is in: positions of the queue and threads
\* that have it in hand.
Places(m) ==
    Cardinality({i \in 1..Len(Queue) : Queue[i] = m})
    + Cardinality({t \in Threads : m \in InHand(t)})

\* C2: no member is checked out to two threads at once, none is queued and
\* checked out at once, none is queued twice: every member ever created is
\* in at most one place, and a member a thread has in hand is in exactly one.
C2_OnePlacePerMember ==
    /\ \A m \in 1..Len(stats) : Places(m) <= 1
    /\ \A t \in Threads : \A m \in InHand(t) :
          /\ m \in 1..Len(stats)
          /\ \A i \in 1..Len(Queue) : Queue[i] # m
          /\ \A u \in Threads \ {t} : m \notin InHand(u)

\* C2's case: two threads are inside their with blocks with different
\* members, one of which has been released and borrowed again.
C2_Witness ==
    \E t, u \in Threads :
        /\ t # u
        /\ pc[t] = "idle" /\ pc[u] = "idle"
        /\ loc[t].obj # NoMember
        /\ loc[u].obj # NoMember
        /\ loc[t].obj # loc[u].obj
        /\ stats[loc[t].obj].count >= 1
        /\ stats[loc[u].obj].new

-----------------------------------------------------------------------------
(* SpecScope: `with pool.get() as (item, item_stats)' blocks on one pool,   *)
(* several open at a time (nested, or held by an ExitStack), each Executor *)
(* method run to completion.  A block ends normally or by an exception;    *)
(* the with statement then calls __exit__, and goes on doing so until it   *)
(* has returned: the interpreter does not leave a block without it.  The  *)
(* pools do not expire members by age and the clock stands still.          *)

\* The configurations of the pool.
ScopeConfigs ==
    { Cfg(1, 1, 0, FALSE, TRUE, FALSE, FALSE, TRUE),
      Cfg(1, 1, 0, TRUE, FALSE, FALSE, TRUE, TRUE),
      Cfg(1, 1, 0, FALSE, TRUE, TRUE, FALSE, FALSE) }

InitScope ==
    \E cfg \in ScopeConfigs :
        LET r == MetaCall([n \in {ClassName(k) : k \in Classes} |-> NoPool],
                          <<>>, <<>>, TheClass, cfg, FALSE, 0)
        IN  /\ registry = r.registry
            /\ pools = r.pools
            /\ stats = r.stats
            /\ ret = [pool |-> r.ret, klass |-> TheClass, cfg |-> cfg,
                      force |-> FALSE]
            /\ cleanups = <<>>
            /\ now = 0
            /\ held = {}
            /\ borrows = 0
            /\ first = NoMember
            /\ cur = NoMember
            /\ curExpired = FALSE
            /\ fabricated = 0
            /\ pc = [t \in Threads |-> "idle"]
            /\ loc = [t \in Threads |-> Idle]

\* The blocks that are open: entered and not yet left.
Open == {t \in Threads : pc[t] # "idle"}

\* The block has ended and __exit__ is due, the block having raised or not.
Leaving(t) == pc[t] \in {"exit_ok", "exit_exc"}

\* Executor.__init__ and __enter__: the pair get_member returns is retained
\* and given to the block.  Every open block may still create one member
\* when it is left.
ScopeEnter(t, answer) ==
    LET r == GetMember(pools[ThePool], answer, NoLag, stats, cleanups, now)
    IN  /\ pc[t] = "idle"
        /\ Len(stats) + Cardinality(Open) + 2 <= MaxScopeObjects
        /\ SetQueue(r.queue)
        /\ stats' = r.stats
        /\ cleanups' = r.cleanups
        /\ held' = held \cup {<<ThePool, r.member>>}
        /\ loc' = [loc EXCEPT ![t].obj = r.member, ![t].got = NoPool]
        /\ Goto(t, "body")
        /\ UNCHANGED <<registry, now, ret, driver>>

\* The block ends: it runs off its end, or raises.
BodyEnd(t, raises) ==
    /\ pc[t] = "body"
    /\ Goto(t, IF raises THEN "exit_exc" ELSE "exit_ok")
    /\ UNCHANGED <<registry, pools, stats, cleanups, loc, client>>

\* Executor.__exit__; after it the exception of the block, unless
\* suppressed, goes on to the caller.
ScopeExit(t, answer) ==
    LET exc == pc[t] = "exit_exc"
        r   == ExecutorExit(pools[ThePool], loc[t].obj, exc, answer, NoLag,
                            stats, cleanups, now)
    IN  /\ Leaving(t)
        /\ SetQueue(r.queue)
        /\ stats' = r.stats
        /\ cleanups' = r.cleanups
        /\ held' = held \ {<<ThePool, loc[t].obj>>}
        /\ loc' = [loc EXCEPT ![t].obj = NoMember,
                              ![t].got = IF exc /\ ~r.suppress THEN Raised
                                         ELSE NoPool]
        /\ Goto(t, "idle")
        /\ UNCHANGED <<registry, now, ret, driver>>

NextScope ==
    \E t \in Threads :
        \/ \E answer \in Answers(pools[ThePool]) : ScopeEnter(t, answer)
        \/ \E raises \in BOOLEAN : BodyEnd(t, raises)
        \/ \E answer \in Answers(pools[ThePool]) : ScopeExit(t, answer)

SpecScope ==
    /\ InitScope
    /\ [][NextScope]_vars
    /\ \A t \in Threads :
          WF_vars(\E answer \in Answers(pools[ThePool]) : ScopeExit(t, answer))

-----------------------------------------------------------------------------
(* Claims about the scoped borrow, under SpecScope *)

\* C14: the members checked out are those retained by the open blocks, a
\* block that is not open retains none; leaving a block, whether it ended
\* normally or raised, is one queue_member call on the pair the block
\* retained, which puts one pair on the queue and takes the retained member
\* out of the checked-out ones; the exception of a block that raised goes on
\* to the caller; nothing else puts a pair on the queue; and a block that
\* has ended is left.
C14_ScopeAlwaysReleases ==
    /\ [](/\ held = {<<ThePool, loc[t].obj>> : t \in Open}
          /\ \A t \in Threads \ Open : loc[t].obj = NoMember)
    /\ [][ \A t \in Threads, answer \in BOOLEAN :
            ScopeExit(t, answer)
            => LET r == QueueMember(pools[ThePool], loc[t].obj, answer, NoLag,
                                    stats, cleanups, now)
               IN  /\ pools'[ThePool].queue = r.queue
                   /\ Len(pools'[ThePool].queue) = Len(Queue) + 1
                   /\ stats' = r.stats
                   /\ <<ThePool, loc[t].obj>> \in held
                   /\ held' = held \ {<<ThePool, loc[t].obj>>}
                   /\ (loc'[t].got = Raised) = (pc[t] = "exit_exc") ]_vars
    /\ [][ Len(pools'[ThePool].queue) > Len(Queue)
            => /\ Len(pools'[ThePool].queue) = Len(Queue) + 1
               /\ \E t \in Threads : Leaving(t) /\ pc'[t] = "idle" ]_vars
    /\ \A t \in Threads : Leaving(t) ~> (pc[t] = "idle")

\* C14's case: on a lazy pool a block raised; it was left, the caller got
\* the exception, nothing is checked out and the member the block was given
\* is queued.
C14_Witness ==
    /\ ret.cfg.lazy
    /\ \E t \in Threads :
          /\ pc[t] = "idle"
          /\ loc[t].got = Raised
    /\ Open = {}
    /\ held = {}
    /\ Len(stats) = 1
    /\ Queue = <<1>>

-----------------------------------------------------------------------------
(* SpecRegConc: threads calling ObjectPool(klass, ...) without force at    *)
(* the same time, __call__ run statement by statement; a step is a         *)
(* statement that reads or writes the registry.                            *)

\* The configurations the threads ask for.
RegConcConfigs ==
    { Cfg(1, 1, 0, FALSE, TRUE, FALSE, FALSE, TRUE),
      Cfg(0, 1, 0, FALSE, TRUE, TRUE, FALSE, FALSE),
      Cfg(-1, 1, 0, FALSE, TRUE, FALSE, FALSE, FALSE) }

\* __call__, lines 40-43 with force false: pool_registered =
\* cls._pool_exists(base_klass)
CallExists(t, cfg) ==
    /\ pc[t] = "idle"
    /\ loc' = [loc EXCEPT ![t].cfg = cfg,
                          ![t].seen = PoolExists(registry, TheClass),
                          ![t].made = NoPool,
                          ![t].got = NoPool]
    /\ Goto(t, IF PoolExists(registry, TheClass) THEN "call_cached"
               ELSE "call_new")
    /\ UNCHANGED <<registry, pools, stats, cleanups, client>>

\* __call__, line 46: return cls.__pool_registry[base_klass.__name__]
CallCached(t) ==
    /\ pc[t] = "call_cached"
    /\ loc' = [loc EXCEPT ![t].got =
                  IF PoolExists(registry, TheClass)
                  THEN registry[ClassName(TheClass)] ELSE Raised]
    /\ Goto(t, "idle")
    /\ UNCHANGED <<registry, pools, stats, cleanups, client>>

\* __call__, lines 48-50: klass = super().__call__(...), which runs __init__
CallNew(t) ==
    /\ pc[t] = "call_new"
    /\ IF ~(loc[t].cfg.max_members >= 0)
       THEN /\ loc' = [loc EXCEPT ![t].got = Raised]
            /\ Goto(t, "idle")
            /\ UNCHANGED <<pools, stats>>
       ELSE /\ Len(pools) < MaxPools
            /\ Len(stats) + InitialFill(loc[t].cfg) <= MaxObjects
            /\ pools' = Append(pools, NewPool(TheClass, loc[t].cfg, stats))
            /\ stats' = CreatePoolStats(stats, InitialFill(loc[t].cfg), now)
            /\ loc' = [loc EXCEPT ![t].made = Len(pools) + 1]
            /\ Goto(t, "call_register")
    /\ UNCHANGED <<registry, cleanups, client>>

\* __call__, lines 51-52: the instance is registered and returned.
CallRegister(t) ==
    /\ pc[t] = "call_register"
    /\ registry' = [registry EXCEPT ![ClassName(TheClass)] = loc[t].made]
    /\ loc' = [loc EXCEPT ![t].got = loc[t].made]
    /\ Goto(t, "idle")
    /\ UNCHANGED <<pools, stats, cleanups, client>>

NextRegConc ==
    \E t \in Threads :
        \/ \E cfg \in RegConcConfigs : CallExists(t, cfg)
        \/ CallCached(t)
        \/ CallNew(t)
        \/ CallRegister(t)

SpecRegConc == InitEmpty /\ [][NextRegConc]_vars

-----------------------------------------------------------------------------
(* Claims about threads sharing the registry, under SpecRegConc *)

\* C3: when threads call ObjectPool(klass, ...) without force at the same
\* time, one instance is constructed, and the threads that were returned an
\* instance were all returned that one.
C3_OneInstancePerClass ==
    /\ (\A t \in Threads : pc[t] = "idle") => Len(pools) <= 1
    /\ \A t, u \in Threads :
          (loc[t].got >= 1 /\ loc[u].got >= 1) => loc[t].got = loc[u].got

=============================================================================
